---- MODULE Spec2Model ----
(***************************************************************************)
(* A model of the conversation-to-source pipeline of AgentAutogen:         *)
(*   - log -> markdown normalisation (log_to_md, LogToMarkdown.convert),     *)
(*   - markdown -> java tree (extract.main, MarkdownToJava.extract),         *)
(*   - the single-manifest writer (write_first_file).                        *)
(* One behaviour is one run of one tool on one input.  The input is drawn  *)
(* in Init; every loop iteration of the tool is one action.                *)
(*                                                                         *)
(* Text is a sequence of tokens.  A token is one character, except for a   *)
(* few fixed literals kept whole ("Next speaker:", "package", "class",     *)
(* "java", ...).  The token "é" stands for any letter that \w matches and  *)
(* [A-Za-z0-9_] does not.                                                  *)
(***************************************************************************)
EXTENDS Integers, Sequences, FiniteSets, TLC

VARIABLES
    tool,       \* which entry point this run is
    pc,         \* where the run stands
    i,          \* index of the loop the run is in
    raw,        \* normalisers: the transcript, as lines
    sender, buf, parts,
    md_out,     \* normalisers: the document written (None before)
    text,       \* extractors: the markdown document, as fenced blocks
    log,        \* every write_text so far, in order
    fs,         \* the files on disk: location -> content
    messages,   \* write_first_file: the messages of the chat
    ci,         \* write_first_file: index of the chunk within message i
    dump        \* write_first_file: coder_raw_dump.txt (None before)

normVars == <<raw, sender, buf, parts, md_out>>
firstVars == <<messages, ci, dump>>
vars == <<tool, pc, i, raw, sender, buf, parts, md_out, text, log, fs,
          messages, ci, dump>>

-----------------------------------------------------------------------------
(* Bounds of the model *)

\* longest transcript, in lines
MaxLines == 3
\* longest markdown document, in fenced blocks
MaxBlocks == 3
\* longest chat, in messages
MaxMsgs == 2

-----------------------------------------------------------------------------
(* Python values *)

\* Optional values: None, or Some(x) read back as o[1].
None == <<>>
Some(x) == <<x>>

\* min(S), or dflt when S is empty
Least(S, dflt) == IF S = {} THEN dflt ELSE CHOOSE m \in S : \A n \in S : m <= n

SeqsUpTo(S, n) == UNION {[1..k -> S] : k \in 0..n}

\* str.strip / str.rstrip with no argument remove whitespace.
Whitespace == {" ", "\n"}

RECURSIVE Lstrip(_)
Lstrip(s) == IF s # <<>> /\ Head(s) \in Whitespace THEN Lstrip(Tail(s)) ELSE s

RECURSIVE Rstrip(_)
Rstrip(s) ==
    IF s # <<>> /\ s[Len(s)] \in Whitespace
    THEN Rstrip(SubSeq(s, 1, Len(s) - 1)) ELSE s

Strip(s) == Lstrip(Rstrip(s))

\* sep.join(items)
RECURSIVE Join(_, _)
Join(sep, items) ==
    IF items = <<>> THEN <<>>
    ELSE IF Len(items) = 1 THEN items[1]
    ELSE items[1] \o sep \o Join(sep, Tail(items))

-----------------------------------------------------------------------------
(* Phase 2: log -> markdown *)

NormTools == {"log_to_md", "convert"}

\* hdr = re.compile(r"^\[(.+?)\]$"); hdr.match(s) -> group(1) or None.
\* Anchored at both ends, so group(1) is all that lies between the first
\* "[" and the closing "]" that ends the line.
HdrMatch(s) ==
    IF Len(s) >= 3 /\ s[1] = "[" /\ s[Len(s)] = "]"
    THEN Some(SubSeq(s, 2, Len(s) - 1)) ELSE None

\* HEADER_RE = re.compile(r"^Next speaker:\s*(.+)$"); group(1) or None.
\* \s* is greedy but gives back one character when nothing else is left
\* for (.+).
HeaderReMatch(s) ==
    IF s # <<>> /\ s[1] = "Next speaker:" /\ Len(s) >= 2
    THEN LET rest == Tail(s)
             r == Lstrip(rest)
         IN  IF r # <<>> THEN Some(r) ELSE Some(<<rest[Len(rest)]>>)
    ELSE None

\* m = hdr.match(line.strip())   /   HEADER_RE.match(line.strip())
LineMatch(t, line) ==
    IF t = "log_to_md" THEN HdrMatch(Strip(line)) ELSE HeaderReMatch(Strip(line))

\* A loop that starts with a speaker already set
InitSenderDefault == Some(<<"?">>)

\* sender, buf, parts = None, [], []
InitSender == None

NormInit == [sender |-> InitSender, buf |-> <<>>, parts |-> <<>>]

\* Python truthiness of `sender`: None and "" are both falsy.
SenderTruthy(s) == s # None /\ s[1] # <<>>

\* (sender, "\n".join(buf).rstrip())
Turn(s, b) == <<s[1], Rstrip(Join(<<"\n">>, b))>>

\* One iteration of `for line in ...splitlines():`
NormStep(t, st, line) ==
    LET m == LineMatch(t, line) IN
    IF m # None
    THEN [sender |-> Some(Strip(m[1])),
          buf    |-> <<>>,
          parts  |-> IF SenderTruthy(st.sender) /\ st.buf # <<>>
                     THEN Append(st.parts, Turn(st.sender, st.buf))
                     ELSE st.parts]
    ELSE [st EXCEPT !.buf = Append(st.buf, line)]

\* The flush after the loop: if sender and buf: parts.append(...)
NormFlush(st) ==
    IF SenderTruthy(st.sender) /\ st.buf # <<>>
    THEN Append(st.parts, Turn(st.sender, st.buf))
    ELSE st.parts

\* ... for s, b in parts if b.strip()
RECURSIVE Emitted(_)
Emitted(ps) ==
    IF ps = <<>> THEN <<>>
    ELSE IF Strip(ps[1][2]) # <<>> THEN <<ps[1]>> \o Emitted(Tail(ps))
    ELSE Emitted(Tail(ps))

\* f"### {s}\n\n{b}\n"
Section(p) == <<"###", " ">> \o p[1] \o <<"\n", "\n">> \o p[2] \o <<"\n">>

\* "\n\n".join(f"### {s}\n\n{b}\n" for s, b in parts if b.strip())
Render(ps) ==
    Join(<<"\n", "\n">>, [k \in 1..Len(Emitted(ps)) |-> Section(Emitted(ps)[k])])

\* Transcript lines the runs are fed.
BodyLines ==
    { <<"h", "i">>,                    \* "hi"
      <<"x", " ">>,                    \* "x " (trailing blank)
      <<>>,                            \* ""
      <<" ">> }                        \* " "

BracketLines ==
    { <<"[", "P", "M", "]">>,          \* "[PM]"
      <<" ", "[", "D", "]", " ">>,     \* " [D] "
      <<"[", " ", "]">> }              \* "[ ]"

NextSpeakerLines ==
    { <<"Next speaker:", " ", "P", "M">>,   \* "Next speaker: PM"
      <<" ", "Next speaker:", "D", " ">>,   \* " Next speaker:D "
      <<"Next speaker:">> }                 \* "Next speaker:" (no name)

LinesOf(t) ==
    IF t = "log_to_md" THEN BodyLines \cup BracketLines
    ELSE BodyLines \cup NextSpeakerLines

NormLine ==
    /\ tool \in NormTools
    /\ pc = "loop"
    /\ i <= Len(raw)
    /\ LET st == NormStep(tool, [sender |-> sender, buf |-> buf, parts |-> parts],
                          raw[i])
       IN  /\ sender' = st.sender
           /\ buf' = st.buf
           /\ parts' = st.parts
    /\ i' = i + 1
    /\ UNCHANGED <<tool, pc, raw, md_out, text, log, fs, firstVars>>

NormWrite ==
    /\ tool \in NormTools
    /\ pc = "loop"
    /\ i > Len(raw)
    /\ parts' = NormFlush([sender |-> sender, buf |-> buf, parts |-> parts])
    /\ md_out' = Some(Render(parts'))
    /\ pc' = "done"
    /\ UNCHANGED <<tool, raw, i, sender, buf, text, log, fs, firstVars>>

-----------------------------------------------------------------------------
(* pathlib and the file system *)

IndexOf(s, tok) == Least({k \in 1..Len(s) : s[k] = tok}, 0)

LastIndexOf(s, tok) ==
    LET S == {k \in 1..Len(s) : s[k] = tok}
    IN  IF S = {} THEN 0 ELSE CHOOSE m \in S : \A n \in S : n <= m

\* s.split(sep)
RECURSIVE SplitOn(_, _)
SplitOn(s, sep) ==
    LET k == IndexOf(s, sep)
    IN  IF k = 0 THEN <<s>>
        ELSE <<SubSeq(s, 1, k - 1)>> \o SplitOn(SubSeq(s, k + 1, Len(s)), sep)

\* s.replace(a, b) for single characters
Replace(s, a, b) == [k \in 1..Len(s) |-> IF s[k] = a THEN b ELSE s[k]]

IsPart(g) == g # <<>> /\ g # <<".">>

\* Path(s): absolute when s starts with "/"; empty and "." parts are
\* dropped, ".." parts and blanks inside a part are kept.
Path(s) ==
    [abs  |-> s # <<>> /\ s[1] = "/",
     segs |-> SelectSeq(SplitOn(s, "/"), IsPart)]

\* a / b: an absolute b replaces a.
PathJoin(a, b) == IF b.abs THEN b ELSE [abs |-> a.abs, segs |-> a.segs \o b.segs]

\* Path.parent, Path.as_posix(), Path.stem
Parent(p) ==
    IF p.segs = <<>> THEN p
    ELSE [p EXCEPT !.segs = SubSeq(p.segs, 1, Len(p.segs) - 1)]

AsPosix(p) ==
    IF p.segs = <<>> THEN (IF p.abs THEN <<"/">> ELSE <<".">>)
    ELSE (IF p.abs THEN <<"/">> ELSE <<>>) \o Join(<<"/">>, p.segs)

Stem(p) ==
    IF p.segs = <<>> THEN <<>>
    ELSE LET name == p.segs[Len(p.segs)]
             k == LastIndexOf(name, ".")
         IN  IF 1 < k /\ k < Len(name) THEN SubSeq(name, 1, k - 1) ELSE name

\* The working directory of the run and the destination roots.
Cwd == [abs |-> TRUE, segs |-> << <<"cwd">> >>]

\* DEST_ROOT = Path("extracted_src")
DEST_ROOT == Path(<<"extracted_src">>)

\* out_dir = Path(__file__).parent / f"out_{RUN_STAMP}"
out_dir == [abs |-> TRUE, segs |-> << <<"repo">>, <<"out_RUN_STAMP">> >>]

\* Where the operating system puts an opened path: relative paths start at
\* the working directory and each ".." steps one directory up.
RECURSIVE Walk(_, _)
Walk(done, todo) ==
    IF todo = <<>> THEN done
    ELSE IF Head(todo) = <<".", ".">>
         THEN Walk(IF done = <<>> THEN <<>> ELSE SubSeq(done, 1, Len(done) - 1),
                   Tail(todo))
         ELSE Walk(Append(done, Head(todo)), Tail(todo))

Location(p) == Walk(<<>>, PathJoin(Cwd, p).segs)

\* A writer that appends the newline without trimming
NormalisedNoTrim(code) == code \o <<"\n">>

\* dest.write_text(code.rstrip() + "\n")
Normalised(code) == Rstrip(code) \o <<"\n">>

\* One write of a materialiser: dest = root / rel; dest.write_text(...).
\* `src` is the artifact content handed in, `blk` the block or entry the
\* write is made for, `how` what supplied the content.
WriteRec(root, rel, code, pass, blk, how) ==
    [pass |-> pass, blk |-> blk, how |-> how, rel |-> rel, src |-> code,
     loc |-> Location(PathJoin(root, rel)), content |-> Normalised(code)]

Written(f, w) == (w.loc :> w.content) @@ f

-----------------------------------------------------------------------------
(* json *)

JNull == [t |-> "null", v |-> <<>>]
JStr(s) == [t |-> "str", v |-> s]
JObj(f) == [t |-> "dict", v |-> f]
JList(q) == [t |-> "list", v |-> q]

\* Python truthiness of a decoded value
Truthy(x) ==
    CASE x.t = "null" -> FALSE
      [] x.t = "str"  -> x.v # <<>>
      [] x.t = "list" -> x.v # <<>>
      [] x.t = "dict" -> DOMAIN x.v # {}

Has(d, key) == key \in DOMAIN d.v

\* d.get(key, dflt) on a dict
Get(d, key, dflt) == IF Has(d, key) THEN d.v[key] ELSE dflt

\* The JSON texts that occur in the documents, and what json.loads makes
\* of each: None for a JSONDecodeError.
J_name  == "{\"javaClass\": {\"name\": \"U\"}}"
J_path  == "{\"javaClass\": {\"path\": \" d/V.java \", \"name\": \"W\"}}"
J_trav  == "{\"javaClass\": {\"path\": \"../E.java\"}}"
J_bad   == "{\"javaClass\": {\"name\": }"
J_str   == "{\"javaClass\": \"Foo\"}"
J_note  == "{\"note\": \"x\"}"

json_loads(jf) ==
    CASE jf = J_name -> Some(JObj([javaClass |-> JObj([name |-> JStr(<<"U">>)])]))
      [] jf = J_path -> Some(JObj([javaClass |->
                            JObj([path |-> JStr(<<" ", "d", "/", "V", ".", "java", " ">>),
                                  name |-> JStr(<<"W">>)])]))
      [] jf = J_trav -> Some(JObj([javaClass |->
                            JObj([path |-> JStr(<<".", ".", "/", "E", ".", "java">>)])]))
      [] jf = J_bad  -> None
      [] jf = J_str  -> Some(JObj([javaClass |-> JStr(<<"F", "o", "o">>)]))
      [] jf = J_note -> Some(JObj([note |-> JStr(<<"x">>)]))

-----------------------------------------------------------------------------
(* Phase 3: markdown -> java tree *)

ExtractTools == {"extract_main", "MarkdownToJava_extract"}

\* [a-zA-Z0-9_] and \w, over the tokens in use
AsciiWord == {"a", "b", "d", "h", "i", "x", "E", "T", "U", "V", "W", "_",
              "package", "class", "public", "java"}
UnicodeWord == AsciiWord \cup {"é"}

\* [A-Za-z_]
IdentStart == AsciiWord

\* s[k..RunEnd] is the longest run of tokens of S that starts at k
RunEnd(s, k, S) == Least({j \in k..Len(s) : s[j] \notin S}, Len(s) + 1) - 1

\* re.search(r"\bclass\s+([A-Za-z_][A-Za-z0-9_]*)", body): W is the class
\* the name continues in, [A-Za-z0-9_] in extract.py and \w in toolkit.py.
ClassAt(body, p, W) ==
    LET q == RunEnd(body, p + 1, Whitespace) + 1
    IN  IF /\ body[p] = "class"
           /\ (p = 1 \/ body[p - 1] \notin UnicodeWord)
           /\ q > p + 1
           /\ q <= Len(body)
           /\ body[q] \in IdentStart
        THEN Some(SubSeq(body, q, RunEnd(body, q, W)))
        ELSE None

ClassSearch(body, W) ==
    LET p == Least({k \in 1..Len(body) : ClassAt(body, k, W) # None}, 0)
    IN  IF p = 0 THEN None ELSE ClassAt(body, p, W)

\* re.search(r"^\s*package\s+([a-zA-Z0-9_.]+);", code, re.M): W is the
\* class of the name, [a-zA-Z0-9_] in extract.py and \w in toolkit.py.
\* ^\s* lets only whitespace stand between a line start and "package".
PackageAt(code, p, W) ==
    LET b == Least({k \in 0..(p - 1) :
                      \A j \in (k + 1)..(p - 1) : code[j] \in Whitespace}, 0)
        q == RunEnd(code, p + 1, Whitespace) + 1
        e == RunEnd(code, q, W \cup {"."})
    IN  IF /\ code[p] = "package"
           /\ (b = 0 \/ \E j \in (b + 1)..(p - 1) : code[j] = "\n")
           /\ q > p + 1
           /\ e >= q
           /\ e < Len(code)
           /\ code[e + 1] = ";"
        THEN Some(SubSeq(code, q, e))
        ELSE None

PackageSearch(code, W) ==
    LET p == Least({k \in 1..Len(code) : PackageAt(code, k, W) # None}, 0)
    IN  IF p = 0 THEN None ELSE PackageAt(code, p, W)

JavaFile(cls_name) == Path(cls_name \o <<".", "java">>)

\* extract._path_from_package
path_from_package(code, cls_name) ==
    LET m == PackageSearch(code, AsciiWord)
    IN  IF m # None
        THEN PathJoin(Path(Replace(Strip(m[1]), ".", "/")), JavaFile(cls_name))
        ELSE JavaFile(cls_name)

\* MarkdownToJava._path_from_package
MarkdownToJava_path_from_package(code, cls_name) ==
    LET m == PackageSearch(code, UnicodeWord)
    IN  IF m # None
        THEN PathJoin(Path(Replace(m[1], ".", "/")), JavaFile(cls_name))
        ELSE JavaFile(cls_name)

\* The class name pass 1 reads from a body, None when the block is skipped
ClassOf(t, body) ==
    IF t = "extract_main" THEN ClassSearch(body, AsciiWord)
    ELSE ClassSearch(body, UnicodeWord)

PathOfBody(t, body, cls_name) ==
    IF t = "extract_main" THEN path_from_package(body, cls_name)
    ELSE MarkdownToJava_path_from_package(body, cls_name)

\* The fixed text of the two stubs, each kept as one token
StubMain == "    public static void main(String[] args) {\n        // TODO: implement\n    }\n"
StubTodo == "    // TODO: implement\n"

PkgLine(path) ==
    <<"package", " ">> \o Replace(AsPosix(Parent(path)), "/", ".") \o <<";", "\n", "\n">>

ClassOpen(path) == <<"public", " ", "class", " ">> \o Stem(path) \o <<" ", "{", "\n">>

\* extract.main, lines 64-73; `s` is the path as the string it still is
Stub(s) ==
    (IF IndexOf(s, "/") # 0 THEN PkgLine(Path(s)) ELSE <<>>)
        \o ClassOpen(Path(s)) \o <<StubMain, "}">>

\* MarkdownToJava.extract, lines 135-137
MarkdownToJava_Stub(path) ==
    (IF Parent(path) # Path(<<".">>) THEN PkgLine(path) ELSE <<>>)
        \o ClassOpen(path) \o <<StubTodo, "}">>

\* The java-tagged bodies that occur in the documents (MD_FENCE's group
\* `body`: what follows "```java" and its whitespace, up to the closing fence).
B_pkg   == <<"package", " ", "a", ".", "b", ";", "\n",
             "public", " ", "class", " ", "T", " ", "{", "}", "\n">>
B_plain == <<"class", " ", "U", " ", "{", "}", "\n", "\n">>
B_uni   == <<"package", " ", "é", ";", "\n", "class", " ", "T", " ", "{", "}", "\n">>
B_doc   == <<"/", "/", " ", "class", " ", "h", "i", "\n",
             "class", " ", "T", " ", "{", "}", "\n">>
B_nocls == <<"x", ";", "\n">>
B_abs   == <<"package", " ", ".", "a", ";", "\n", "class", " ", "T", " ", "{", "}", "\n">>

JavaBlock(body) == [kind |-> "java", body |-> body, jf |-> ""]
JsonBlock(jf) == [kind |-> "json", body |-> <<>>, jf |-> jf]

Blocks ==
    {JavaBlock(b) : b \in {B_pkg, B_plain, B_uni, B_doc, B_nocls, B_abs}}
        \cup {JsonBlock(j) : j \in {J_name, J_path, J_trav, J_bad, J_str, J_note}}

\* The positions in the document of MD_FENCE.findall / JSON_FENCE.findall
IsKind(doc, kind, k) == doc[k].kind = kind

KindIdx(doc, kind) ==
    SelectSeq([k \in 1..Len(doc) |-> k], LAMBDA k : IsKind(doc, kind, k))

\* tail = text.split(jf, 1)[1]; MD_FENCE.search(tail): the text is cut
\* after the FIRST place the string jf occurs, and the first java fence
\* after that cut is taken.  0 when there is none.
SplitPoint(doc, jf) == Least({k \in 1..Len(doc) : doc[k].jf = jf}, 0)

FenceAfter(doc, cut) ==
    Least({k \in (cut + 1)..Len(doc) : doc[k].kind = "java"}, 0)

\* The report after a write: MarkdownToJava._write and write_first_file
\* print dest.relative_to(root), a ValueError when dest does not lie
\* under root part by part (".." counts as a part); write_class prints dest.
ReportRaises(t, root, rel) ==
    /\ t # "extract_main"
    /\ LET dest == PathJoin(root, rel)
       IN  ~(dest.abs = root.abs /\ Len(root.segs) <= Len(dest.segs)
             /\ SubSeq(dest.segs, 1, Len(root.segs)) = root.segs)

Skip == [act |-> "skip"]
Raise == [act |-> "raise"]
WriteOf(rel, code, how) == [act |-> "write", rel |-> rel, code |-> code, how |-> how]

\* extract.main, lines 48-74, for the JSON text jf of document doc
main_manifest(doc, jf) ==
    LET data == json_loads(jf) IN
    IF data = None THEN Skip                       \* JSONDecodeError: continue
    ELSE LET jc == Get(data[1], "javaClass", JNull) IN
    IF ~Truthy(jc) THEN Skip                       \* if not jc: continue
    ELSE IF jc.t # "dict" THEN Raise               \* jc.get: AttributeError
    ELSE LET p == Get(jc, "path", JNull)
             n == Get(jc, "name", JStr(<<>>))
         IN
    \* path = jc.get("path") or jc.get("name", "") + ".java"
    IF ~Truthy(p) /\ n.t # "str" THEN Raise
    ELSE LET pv == IF Truthy(p) THEN p ELSE JStr(n.v \o <<".", "java">>) IN
    IF pv.t # "str" THEN Raise                     \* Path(path): TypeError
    ELSE LET f == FenceAfter(doc, SplitPoint(doc, jf)) IN
         IF f # 0 THEN WriteOf(Path(pv.v), doc[f].body, "fence")
         ELSE WriteOf(Path(pv.v), Stub(pv.v), "stub")

\* MarkdownToJava.extract, lines 120-138
MarkdownToJava_manifest(doc, jf) ==
    LET data == json_loads(jf) IN
    IF data = None THEN Skip
    ELSE LET jc == Get(data[1], "javaClass", JNull) IN
    IF ~Truthy(jc) THEN Skip
    ELSE IF jc.t # "dict" THEN Raise
    \* path = Path(jc.get("path", jc.get("name", "UnnamedClass.java")))
    ELSE LET pv == Get(jc, "path",
                       Get(jc, "name", JStr(<<"UnnamedClass", ".", "java">>)))
         IN
    IF pv.t # "str" THEN Raise
    ELSE LET f == FenceAfter(doc, SplitPoint(doc, jf)) IN
         IF f # 0 THEN WriteOf(Path(pv.v), doc[f].body, "fence")
         ELSE WriteOf(Path(pv.v), MarkdownToJava_Stub(Path(pv.v)), "stub")

ManifestOf(t, doc, jf) ==
    IF t = "extract_main" THEN main_manifest(doc, jf)
    ELSE MarkdownToJava_manifest(doc, jf)

\* Pass 1, one iteration of `for body in MD_FENCE.findall(text):`
Pass1Block ==
    /\ tool \in ExtractTools
    /\ pc = "pass1"
    /\ i <= Len(KindIdx(text, "java"))
    /\ LET k == KindIdx(text, "java")[i]
           body == text[k].body
           m == ClassOf(tool, body)
       IN  IF m # None
           THEN LET w == WriteRec(DEST_ROOT, PathOfBody(tool, body, m[1]),
                                  body, 1, k, "body")
                IN  /\ log' = Append(log, w)
                    /\ fs' = Written(fs, w)
                    /\ pc' = IF ReportRaises(tool, DEST_ROOT, w.rel)
                             THEN "raised" ELSE pc
           ELSE UNCHANGED <<pc, log, fs>>
    /\ i' = i + 1
    /\ UNCHANGED <<tool, text, normVars, firstVars>>

\* The first loop ends and the second starts
Pass1End ==
    /\ tool \in ExtractTools
    /\ pc = "pass1"
    /\ i > Len(KindIdx(text, "java"))
    /\ pc' = "pass2"
    /\ i' = 1
    /\ UNCHANGED <<tool, text, log, fs, normVars, firstVars>>

\* Pass 2, one iteration of `for jf in JSON_FENCE.findall(text):`
Pass2Block ==
    /\ tool \in ExtractTools
    /\ pc = "pass2"
    /\ i <= Len(KindIdx(text, "json"))
    /\ LET k == KindIdx(text, "json")[i]
           r == ManifestOf(tool, text, text[k].jf)
       IN  CASE r.act = "skip" ->
                  /\ i' = i + 1
                  /\ UNCHANGED <<pc, log, fs>>
             [] r.act = "raise" ->
                  /\ pc' = "raised"
                  /\ UNCHANGED <<i, log, fs>>
             [] r.act = "write" ->
                  LET w == WriteRec(DEST_ROOT, r.rel, r.code, 2, k, r.how)
                  IN  /\ log' = Append(log, w)
                      /\ fs' = Written(fs, w)
                      /\ i' = i + 1
                      /\ pc' = IF ReportRaises(tool, DEST_ROOT, w.rel)
                               THEN "raised" ELSE pc
    /\ UNCHANGED <<tool, text, normVars, firstVars>>

ExtractReturn ==
    /\ tool \in ExtractTools
    /\ pc = "pass2"
    /\ i > Len(KindIdx(text, "json"))
    /\ pc' = "done"
    /\ UNCHANGED <<tool, i, text, log, fs, normVars, firstVars>>

InitExtract ==
    /\ tool \in ExtractTools
    /\ text \in SeqsUpTo(Blocks, MaxBlocks)
    /\ pc = "pass1"
    /\ i = 1
    /\ log = <<>>
    /\ fs = <<>>
    /\ raw = <<>>
    /\ sender = None
    /\ buf = <<>>
    /\ parts = <<>>
    /\ md_out = None
    /\ messages = <<>>
    /\ ci = 1
    /\ dump = None

-----------------------------------------------------------------------------
(* The single-manifest writer, write_first_file *)

\* The JSON texts that occur in the messages
F_app   == "{\"files\": [{\"path\": \"pom.xml\", \"content\": \"<p/>\"}, {\"path\": \"src/A.java\", \"content\": \"class A {}\\n\\n\"}, {\"path\": \"B.java\", \"content\": \"class B {}\"}]}"
F_pom   == "{\"files\": [{\"path\": \"pom.xml\", \"content\": \"<p/> \"}]}"
F_docs  == "{\"files\": [{\"path\": \" README \"}, {\"path\": \"n.txt\", \"content\": \"n\"}]}"
F_trav  == "{\"files\": [{\"path\": \"../x.java\", \"content\": \"x\"}]}"
F_abs   == "{\"files\": [{\"path\": \"/x.java\", \"content\": \"x\"}, {\"path\": \"pom.xml\", \"content\": \"<p/>\"}]}"
F_empty == "{\"files\": []}"
F_str   == "{\"files\": \"oops\"}"
F_bad   == "{\"files\": [}"

FileEntry(path, content) == JObj([path |-> JStr(path), content |-> JStr(content)])

files_loads(chunk) ==
    CASE chunk = F_app ->
           Some(JObj([files |-> JList(<<
               FileEntry(<<"pom", ".", "xml">>, <<"<p/>">>),
               FileEntry(<<"src", "/", "A", ".", "java">>,
                         <<"class", " ", "A", " ", "{", "}", "\n", "\n">>),
               FileEntry(<<"B", ".", "java">>,
                         <<"class", " ", "B", " ", "{", "}">>) >>)]))
      [] chunk = F_pom ->
           Some(JObj([files |-> JList(<<
               FileEntry(<<"pom", ".", "xml">>, <<"<p/>", " ">>) >>)]))
      [] chunk = F_docs ->
           Some(JObj([files |-> JList(<<
               JObj([path |-> JStr(<<" ", "README", " ">>)]),
               FileEntry(<<"n", ".", "txt">>, <<"n">>) >>)]))
      [] chunk = F_trav ->
           Some(JObj([files |-> JList(<<
               FileEntry(<<".", ".", "/", "x", ".", "java">>, <<"x">>) >>)]))
      [] chunk = F_abs ->
           Some(JObj([files |-> JList(<<
               FileEntry(<<"/", "x", ".", "java">>, <<"x">>),
               FileEntry(<<"pom", ".", "xml">>, <<"<p/>">>) >>)]))
      [] chunk = F_empty -> Some(JObj([files |-> JList(<<>>)]))
      [] chunk = F_str -> Some(JObj([files |-> JStr(<<"o", "o", "p", "s">>)]))
      [] chunk = F_bad -> None
      [] OTHER -> json_loads(chunk)

\* A message, by what json_blocks and msg.strip() see of it: the JSON
\* texts of its fenced blocks, in order; the message itself when, stripped,
\* it starts with "{" and ends with "}"; whether it is blank; and how many
\* java-tagged fences it holds.
Message(blank, fenced, bare, java) ==
    [blank |-> blank, fenced |-> fenced, bare |-> bare, java |-> java]

Messages ==
    { Message(TRUE, <<>>, None, 0),                 \* "  \n"
      Message(FALSE, <<>>, None, 0),                \* "LGTM"
      Message(FALSE, <<>>, None, 1),                \* "```java\nclass A {}\n```"
      Message(FALSE, <<F_bad, F_app>>, None, 0),    \* two fenced blocks
      Message(FALSE, <<F_pom>>, None, 0),
      Message(FALSE, <<J_note>>, None, 0),
      Message(FALSE, <<F_empty, F_docs>>, None, 1) }
      \cup {Message(FALSE, <<>>, Some(c), 0) :      \* the bare JSON text
              c \in {F_app, F_pom, F_docs, F_trav, F_abs, F_empty, F_str, J_note}}

\* json_blocks(text): every fenced chunk, then the stripped text itself
\* when it starts with "{" and ends with "}"
json_blocks(msg) == msg.fenced \o msg.bare

\* path.endswith(".java")
EndsWithJava(s) == Len(s) >= 2 /\ s[Len(s) - 1] = "." /\ s[Len(s)] = "java"

\* f.get("path", "") of a files entry
PathText(f) == Get(f, "path", JStr(<<>>)).v

\* entry.get("content", "")
ContentText(f) == Get(f, "content", JStr(<<>>)).v

\* next((f for f in files if f.get("path", "").endswith(".java")), files[0]),
\* as an index into files
PickEntry(files) ==
    Least({k \in 1..Len(files) : EndsWithJava(PathText(files[k]))}, 1)

\* next((f for f in files if f.get("path") == "pom.xml"), None), 0 for None
PickPom(files) ==
    Least({k \in 1..Len(files) :
             Has(files[k], "path") /\ files[k].v["path"].v = <<"pom", ".", "xml">>}, 0)

\* Lines 97-114 for one chunk: what the chunk makes the call do
first_file(chunk) ==
    LET data == files_loads(chunk) IN
    IF data = None THEN Skip                         \* JSONDecodeError
    ELSE LET files == Get(data[1], "files", JNull) IN
    IF ~Truthy(files) THEN Skip                      \* if not files: continue
    ELSE IF files.t # "list" THEN Raise              \* f.get: AttributeError
    ELSE LET e == PickEntry(files.v) IN
    IF ~Has(files.v[e], "path") THEN Raise           \* entry["path"]: KeyError
    ELSE [act |-> "write", entry |-> e, pom |-> PickPom(files.v), files |-> files.v]

\* A writer that leaves coder_raw_dump.txt unwritten
NoDump(msgs) == None

\* "\n\n---\n\n".join(messages) written to coder_raw_dump.txt
DumpOf(msgs) == Some(msgs)

\* `if not msg.strip(): continue`, and the end of a message's chunks
NextMessage ==
    /\ tool = "write_first_file"
    /\ pc = "scan"
    /\ i <= Len(messages)
    /\ messages[i].blank \/ ci > Len(json_blocks(messages[i]))
    /\ i' = i + 1
    /\ ci' = 1
    /\ UNCHANGED <<tool, pc, messages, dump, text, log, fs, normVars>>

\* One iteration of `for chunk in json_blocks(msg):`
TryChunk ==
    /\ tool = "write_first_file"
    /\ pc = "scan"
    /\ i <= Len(messages)
    /\ ~messages[i].blank
    /\ ci <= Len(json_blocks(messages[i]))
    /\ LET r == first_file(json_blocks(messages[i])[ci]) IN
       CASE r.act = "skip" ->
              /\ ci' = ci + 1
              /\ UNCHANGED <<pc, log, fs>>
         [] r.act = "raise" ->
              /\ pc' = "raised"
              /\ UNCHANGED <<ci, log, fs>>
         [] r.act = "write" ->
              LET entry == r.files[r.entry]
                  w == WriteRec(out_dir, Path(Strip(PathText(entry))),
                                ContentText(entry), 1, r.entry, "entry")
                  p == WriteRec(out_dir, Path(<<"pom", ".", "xml">>),
                                IF r.pom = 0 THEN <<>> ELSE ContentText(r.files[r.pom]),
                                1, r.pom, "pom")
              IN  /\ ci' = ci
                  /\ IF ReportRaises(tool, out_dir, w.rel)
                     THEN /\ log' = Append(log, w)
                          /\ fs' = Written(fs, w)
                          /\ pc' = "raised"
                     ELSE IF r.pom # 0
                     THEN /\ log' = log \o <<w, p>>
                          /\ fs' = Written(Written(fs, w), p)
                          /\ pc' = "done"
                     ELSE /\ log' = Append(log, w)
                          /\ fs' = Written(fs, w)
                          /\ pc' = "done"
    /\ UNCHANGED <<tool, i, messages, dump, text, normVars>>

\* Line 117: nothing found, the raw messages are dumped
DumpRaw ==
    /\ tool = "write_first_file"
    /\ pc = "scan"
    /\ i > Len(messages)
    /\ dump' = DumpOf(messages)
    /\ pc' = "dumped"
    /\ UNCHANGED <<tool, i, ci, messages, text, log, fs, normVars>>

\* Line 118: raise RuntimeError
RaiseNotFound ==
    /\ tool = "write_first_file"
    /\ pc = "dumped"
    /\ pc' = "notfound"
    /\ UNCHANGED <<tool, i, ci, messages, dump, text, log, fs, normVars>>

InitFirst ==
    /\ tool = "write_first_file"
    /\ messages \in SeqsUpTo(Messages, MaxMsgs)
    /\ pc = "scan"
    /\ i = 1
    /\ ci = 1
    /\ dump = None
    /\ text = <<>>
    /\ log = <<>>
    /\ fs = <<>>
    /\ raw = <<>>
    /\ sender = None
    /\ buf = <<>>
    /\ parts = <<>>
    /\ md_out = None

-----------------------------------------------------------------------------

InitNorm ==
    /\ tool \in NormTools
    /\ raw \in SeqsUpTo(LinesOf(tool), MaxLines)
    /\ pc = "loop"
    /\ i = 1
    /\ sender = NormInit.sender
    /\ buf = NormInit.buf
    /\ parts = NormInit.parts
    /\ md_out = None
    /\ text = <<>>
    /\ log = <<>>
    /\ fs = <<>>
    /\ messages = <<>>
    /\ ci = 1
    /\ dump = None

Init == InitNorm \/ InitExtract \/ InitFirst

Next ==
    \/ NormLine
    \/ NormWrite
    \/ Pass1Block
    \/ Pass1End
    \/ Pass2Block
    \/ ExtractReturn
    \/ NextMessage
    \/ TryChunk
    \/ DumpRaw
    \/ RaiseNotFound

Spec == Init /\ [][Next]_vars

-----------------------------------------------------------------------------
(* Claims about the normalisers *)

\* The headers of transcript r as tool t recognises them, and the turn each
\* one opens: its speaker name and the lines up to the next header.
HeaderIdx(t, r) == {h \in 1..Len(r) : LineMatch(t, r[h]) # None}

FirstHeader(t, r) == Least(HeaderIdx(t, r), Len(r) + 1)

NextHeader(t, r, h) == Least({g \in HeaderIdx(t, r) : g > h}, Len(r) + 1)

SpeakerOf(t, r, h) == Strip(LineMatch(t, r[h])[1])

BodyOf(t, r, h) == Rstrip(Join(<<"\n">>, SubSeq(r, h + 1, NextHeader(t, r, h) - 1)))

RECURSIVE SectionsFrom(_, _, _)
SectionsFrom(t, r, h) ==
    IF h > Len(r) THEN <<>>
    ELSE IF h \in HeaderIdx(t, r) /\ Strip(BodyOf(t, r, h)) # <<>>
         THEN <<<<SpeakerOf(t, r, h), BodyOf(t, r, h)>>>> \o SectionsFrom(t, r, h + 1)
         ELSE SectionsFrom(t, r, h + 1)

ExpectedSections(t, r) == SectionsFrom(t, r, 1)

\* C1: the document holds exactly one section per recognised header that is
\* followed by a non-blank body, in input order, titled with the header's
\* speaker name and carrying the right-trimmed body; a turn pending at end
\* of input is finalised the same way.
C1_OneSectionPerTurn ==
    (tool \in NormTools /\ pc = "done") =>
        /\ Emitted(parts) = ExpectedSections(tool, raw)
        /\ md_out = Some(Render(ExpectedSections(tool, raw)))

\* C2: the run starts with no active speaker: nothing is emitted and no
\* speaker is set until the first header has been read, every emitted
\* section is the turn of some header (so it holds only lines after that
\* header), and a transcript with no header gives the empty document.
C2_NoTurnBeforeFirstHeader ==
    tool \in NormTools =>
        /\ i <= FirstHeader(tool, raw) => (parts = <<>> /\ sender = None)
        /\ pc = "done" =>
            /\ \A k \in 1..Len(Emitted(parts)) :
                 \E h \in HeaderIdx(tool, raw) :
                    Emitted(parts)[k] = <<SpeakerOf(tool, raw, h), BodyOf(tool, raw, h)>>
            /\ HeaderIdx(tool, raw) = {} => md_out = Some(<<>>)

\* C2 witness: a finished run whose transcript opens with a non-blank line
\* before its first header and still produces a section.
C2_Witness ==
    /\ tool \in NormTools
    /\ pc = "done"
    /\ 1 < FirstHeader(tool, raw)
    /\ FirstHeader(tool, raw) <= Len(raw)
    /\ Strip(raw[1]) # <<>>
    /\ Emitted(parts) # <<>>

-----------------------------------------------------------------------------
(* Claims about the materialisers *)

Writes == {log[k] : k \in 1..Len(log)}

\* The destination root of the run, as a location
RootOf(t) == IF t \in ExtractTools THEN Location(DEST_ROOT) ELSE Location(out_dir)

IsPrefix(a, b) == Len(a) <= Len(b) /\ SubSeq(b, 1, Len(a)) = a

Inside(root, loc) == IsPrefix(root, loc) /\ Len(loc) > Len(root)

\* C3: every written file has a relative path without ".." and lies inside
\* the destination root.
C3_WritesStayInsideRoot ==
    \A w \in Writes :
        /\ ~w.rel.abs
        /\ \A k \in 1..Len(w.rel.segs) : w.rel.segs[k] # <<".", ".">>
        /\ Inside(RootOf(tool), w.loc)

\* What each java body declares, read as Java: its package, as the list of
\* its segments, and the class it declares.  B_nocls declares no class and
\* "package .a;" of B_abs is no package declaration, so neither is listed.
DeclaredBodies == {B_pkg, B_plain, B_uni, B_doc}

DeclaredPackage(body) ==
    CASE body = B_pkg   -> << <<"a">>, <<"b">> >>
      [] body = B_plain -> <<>>
      [] body = B_uni   -> << <<"é">> >>
      [] body = B_doc   -> <<>>

DeclaredClass(body) ==
    CASE body = B_pkg   -> <<"T">>
      [] body = B_plain -> <<"U">>
      [] body = B_uni   -> <<"T">>
      [] body = B_doc   -> <<"T">>

\* s1/s2/.../sn/T.java, or T.java when there is no package
DeclaredPath(body) ==
    [abs |-> FALSE,
     segs |-> DeclaredPackage(body) \o <<DeclaredClass(body) \o <<".", "java">> >>]

\* C4: a java block that declares class T in package s1...sn is written at
\* s1/.../sn/T.java (T.java without a package), and the two
\* _path_from_package functions agree on every body.
C4_PathFromPackage ==
    /\ \A w \in Writes :
          (tool \in ExtractTools /\ w.pass = 1 /\ text[w.blk].body \in DeclaredBodies)
              => w.rel = DeclaredPath(text[w.blk].body)
    /\ \A w \in Writes :
          (tool \in ExtractTools /\ w.pass = 1 /\ text[w.blk].body \in DeclaredBodies)
              => path_from_package(w.src, DeclaredClass(w.src))
                   = MarkdownToJava_path_from_package(w.src, DeclaredClass(w.src))

\* The javaClass object of a manifest block that was written
JavaClassOf(jf) == json_loads(jf)[1].v["javaClass"]

\* C5: a manifest with a "path" is written at that path, stripped of
\* surrounding whitespace, whatever its name; one without is written at
\* <name>.java, a single segment ending in ".java".
C5_ManifestPath ==
    \A w \in Writes :
        (tool \in ExtractTools /\ w.pass = 2) =>
            LET jc == JavaClassOf(text[w.blk].jf) IN
            IF Has(jc, "path")
            THEN w.rel = Path(Strip(jc.v["path"].v))
            ELSE w.rel = [abs |-> FALSE,
                          segs |-> << jc.v["name"].v \o <<".", "java">> >>]

\* C6: the stub is written for a manifest block exactly when no java block
\* follows that block; otherwise the content is the body of the first java
\* block after that very block.
C6_StubIffNoFenceFollows ==
    \A w \in Writes :
        (tool \in ExtractTools /\ w.pass = 2) =>
            LET f == FenceAfter(text, w.blk) IN
            /\ (w.how = "stub") <=> (f = 0)
            /\ f # 0 => w.src = text[f].body

\* C7: what is written is the artifact content without its trailing
\* whitespace, plus one newline: the written text ends in a newline, the
\* text before it is a prefix of the content that does not end in
\* whitespace, and only whitespace was cut off.
TrimmedPlusNewline(content, src) ==
    LET n == Len(content) - 1 IN
    /\ n >= 0
    /\ content[n + 1] = "\n"
    /\ IsPrefix(SubSeq(content, 1, n), src)
    /\ n > 0 => content[n] \notin Whitespace
    /\ \A k \in (n + 1)..Len(src) : src[k] \in Whitespace

C7_RightTrimmedPlusNewline ==
    /\ \A w \in Writes : TrimmedPlusNewline(w.content, w.src)
    /\ \A loc \in DOMAIN fs : \E w \in Writes : w.loc = loc /\ fs[loc] = w.content

\* C7 witness: a file was written from content that ended in two
\* whitespace characters.
C7_Witness ==
    \E w \in Writes :
        /\ Len(w.src) >= 2
        /\ w.src[Len(w.src)] \in Whitespace
        /\ w.src[Len(w.src) - 1] \in Whitespace
        /\ fs[w.loc] = w.content

\* The java blocks pass 1 accepts and the well-formed manifest blocks of a
\* document, in document order
AcceptedJava(t, doc) ==
    SelectSeq(KindIdx(doc, "java"), LAMBDA k : ClassOf(t, doc[k].body) # None)

IsManifest(doc, k) ==
    LET d == json_loads(doc[k].jf) IN
    /\ d # None
    /\ Has(d[1], "javaClass")
    /\ d[1].v["javaClass"].t = "dict"
    /\ Truthy(d[1].v["javaClass"])

ManifestBlocks(doc) == SelectSeq(KindIdx(doc, "json"), LAMBDA k : IsManifest(doc, k))

LastWriteTo(loc) ==
    LET S == {k \in 1..Len(log) : log[k].loc = loc}
    IN  log[CHOOSE m \in S : \A n \in S : n <= m]

\* C10: the writes of a run are one per accepted java block in document
\* order, then one per javaClass manifest block in document order; no
\* pass-2 write precedes a pass-1 write; each path holds its last write.
C10_TwoPassOrder ==
    tool \in ExtractTools =>
        /\ \A a, b \in 1..Len(log) : a < b => log[a].pass <= log[b].pass
        /\ \A loc \in DOMAIN fs : fs[loc] = LastWriteTo(loc).content
        /\ pc \in {"done", "raised"} =>
              [k \in 1..Len(log) |-> log[k].blk]
                  = AcceptedJava(tool, text) \o ManifestBlocks(text)

-----------------------------------------------------------------------------
(* Claims about write_first_file *)

\* The candidates of a chat, as <<message, chunk>> positions: the fenced
\* JSON chunks of each non-blank message and then the message itself when
\* it is a bare JSON object
ChunksOf(msg) == IF msg.blank THEN <<>> ELSE msg.fenced \o msg.bare

Candidates(msgs) ==
    UNION {{<<m, c>> : c \in 1..Len(ChunksOf(msgs[m]))} : m \in 1..Len(msgs)}

Before(p, q) == p[1] < q[1] \/ (p[1] = q[1] /\ p[2] < q[2])

\* The first position of S in message order and then chunk order
FirstOf(S) ==
    IF S = {} THEN None
    ELSE Some(CHOOSE p \in S : \A q \in S : q = p \/ Before(p, q))

ParsedAt(msgs, pos) == files_loads(ChunksOf(msgs[pos[1]])[pos[2]])

\* The candidate parses as a JSON object with a non-empty "files" list
IsFilesManifest(msgs, pos) ==
    LET d == ParsedAt(msgs, pos) IN
    /\ d # None
    /\ d[1].t = "dict"
    /\ Has(d[1], "files")
    /\ d[1].v["files"].t = "list"
    /\ d[1].v["files"].v # <<>>

FirstManifest(msgs) ==
    FirstOf({pos \in Candidates(msgs) : IsFilesManifest(msgs, pos)})

\* What the claim has the call write from a files list: the first entry
\* whose path ends in ".java", else the first entry; then pom.xml when an
\* entry with exactly that path is listed
ExpectedEntry(files) ==
    IF \E k \in 1..Len(files) : Has(files[k], "path") /\ EndsWithJava(files[k].v["path"].v)
    THEN CHOOSE k \in 1..Len(files) :
            /\ Has(files[k], "path") /\ EndsWithJava(files[k].v["path"].v)
            /\ \A j \in 1..(k - 1) :
                 ~(Has(files[j], "path") /\ EndsWithJava(files[j].v["path"].v))
    ELSE 1

ListsPom(files) ==
    \E k \in 1..Len(files) :
        Has(files[k], "path") /\ files[k].v["path"].v = <<"pom", ".", "xml">>

ExpectedWrites(files) ==
    <<"entry">> \o (IF ListsPom(files) THEN <<"pom">> ELSE <<>>)

Finished == pc \in {"done", "raised", "notfound"}

\* C8: the call acts on the first candidate, in message and then chunk
\* order, that parses to an object with a non-empty "files" list, and on no
\* other: it writes that list's first ".java" entry (else its first entry),
\* then pom.xml when one is listed, and returns.
C8_FirstManifestOnly ==
    tool = "write_first_file" =>
        /\ pc = "scan" => log = <<>>
        /\ Finished =>
             LET first == FirstManifest(messages) IN
             IF first = None THEN log = <<>>
             ELSE LET files == ParsedAt(messages, first[1])[1].v["files"].v IN
                  /\ pc = "done"
                  /\ <<i, ci>> = first[1]
                  /\ [k \in 1..Len(log) |-> log[k].how] = ExpectedWrites(files)
                  /\ log[1].blk = ExpectedEntry(files)
                  /\ \A k \in 1..Len(log) :
                        log[k].how = "pom" =>
                            /\ log[k].rel = Path(<<"pom", ".", "xml">>)
                            /\ files[log[k].blk].v["path"].v = <<"pom", ".", "xml">>

\* No message holds a fenced block, json-tagged or java-tagged
ZeroFences(msgs) ==
    \A m \in 1..Len(msgs) : msgs[m].fenced = <<>> /\ msgs[m].java = 0

\* The candidate's "files" value is truthy
HasFiles(msgs, pos) ==
    LET d == ParsedAt(msgs, pos) IN
    d # None /\ d[1].t = "dict" /\ Truthy(Get(d[1], "files", JNull))

FirstWithFiles(msgs) == FirstOf({pos \in Candidates(msgs) : HasFiles(msgs, pos)})

\* A valid manifest: a non-empty "files" list whose selected entry has a
\* path that, stripped, is relative and free of ".."
IsValidManifest(msgs, pos) ==
    /\ IsFilesManifest(msgs, pos)
    /\ LET files == ParsedAt(msgs, pos)[1].v["files"].v
           e == files[ExpectedEntry(files)]
       IN  /\ Has(e, "path")
           /\ LET rel == Path(Strip(e.v["path"].v)) IN
              /\ ~rel.abs
              /\ \A k \in 1..Len(rel.segs) : rel.segs[k] # <<".", ".">>

ValidManifestFound(msgs) ==
    /\ FirstWithFiles(msgs) # None
    /\ IsValidManifest(msgs, FirstWithFiles(msgs)[1])

-----------------------------------------------------------------------------
(* Claim about candidates that do not qualify *)

\* A block qualifies when it is a java block with a class declaration the
\* tool detects, or a JSON block that parses to an object whose javaClass
\* is a non-empty object
QualifiesBlock(t, b) ==
    IF b.kind = "java" THEN ClassOf(t, b.body) # None
    ELSE LET d == json_loads(b.jf) IN
         /\ d # None
         /\ Has(d[1], "javaClass")
         /\ d[1].v["javaClass"].t = "dict"
         /\ Truthy(d[1].v["javaClass"])

\* The document without its blocks that do not qualify
PrunedDoc(t, doc) == SelectSeq(doc, LAMBDA b : QualifiesBlock(t, b))

\* What a tool does for block k of a document
StepOf(t, doc, k) ==
    IF doc[k].kind = "java"
    THEN LET m == ClassOf(t, doc[k].body) IN
         IF m = None THEN Skip
         ELSE WriteOf(PathOfBody(t, doc[k].body, m[1]), doc[k].body, "body")
    ELSE ManifestOf(t, doc, doc[k].jf)

\* The files a run over the blocks `steps` of a document writes, as
\* <<location, content>> in order, and how the run ends
RECURSIVE RunOf(_, _, _)
RunOf(t, doc, steps) ==
    IF steps = <<>> THEN [writes |-> <<>>, end |-> "done"]
    ELSE LET r == StepOf(t, doc, Head(steps)) IN
         CASE r.act = "skip" -> RunOf(t, doc, Tail(steps))
           [] r.act = "raise" -> [writes |-> <<>>, end |-> "raised"]
           [] r.act = "write" ->
                LET w == <<Location(PathJoin(DEST_ROOT, r.rel)), Normalised(r.code)>>
                    rest == RunOf(t, doc, Tail(steps))
                IN  IF ReportRaises(t, DEST_ROOT, r.rel)
                    THEN [writes |-> <<w>>, end |-> "raised"]
                    ELSE [writes |-> <<w>> \o rest.writes, end |-> rest.end]

\* The run of a tool over a whole document: pass 1, then pass 2
RunOfDoc(t, doc) == RunOf(t, doc, KindIdx(doc, "java") \o KindIdx(doc, "json"))

\* The candidate chunks of a chat, in scan order
RECURSIVE AllChunks(_)
AllChunks(msgs) ==
    IF msgs = <<>> THEN <<>> ELSE ChunksOf(Head(msgs)) \o AllChunks(Tail(msgs))

\* A chunk qualifies when it parses to an object with a non-empty "files" list
QualifiesChunk(chunk) ==
    LET d == files_loads(chunk) IN
    /\ d # None
    /\ d[1].t = "dict"
    /\ Has(d[1], "files")
    /\ d[1].v["files"].t = "list"
    /\ d[1].v["files"].v # <<>>

\* What write_first_file writes for a sequence of candidate chunks, and
\* how it ends
RECURSIVE RunOfChunks(_)
RunOfChunks(chunks) ==
    IF chunks = <<>> THEN [writes |-> <<>>, end |-> "notfound"]
    ELSE LET r == first_file(Head(chunks)) IN
         CASE r.act = "skip" -> RunOfChunks(Tail(chunks))
           [] r.act = "raise" -> [writes |-> <<>>, end |-> "raised"]
           [] r.act = "write" ->
                LET rel == Path(Strip(PathText(r.files[r.entry])))
                    w == <<Location(PathJoin(out_dir, rel)),
                           Normalised(ContentText(r.files[r.entry]))>>
                    p == <<Location(PathJoin(out_dir, Path(<<"pom", ".", "xml">>))),
                           Normalised(ContentText(r.files[IF r.pom = 0 THEN 1 ELSE r.pom]))>>
                IN  IF ReportRaises("write_first_file", out_dir, rel)
                    THEN [writes |-> <<w>>, end |-> "raised"]
                    ELSE [writes |-> IF r.pom = 0 THEN <<w>> ELSE <<w, p>>,
                          end |-> "done"]

\* The writes of the run so far, as <<location, content>>
WritesMade == [k \in 1..Len(log) |-> <<log[k].loc, log[k].content>>]

\* The run, once over, is the run its input gives
RunAsInput ==
    /\ (tool \in ExtractTools /\ Finished) =>
          [writes |-> WritesMade, end |-> pc] = RunOfDoc(tool, text)
    /\ (tool = "write_first_file" /\ Finished) =>
          [writes |-> WritesMade, end |-> pc] = RunOfChunks(AllChunks(messages))

\* C11: a candidate that does not qualify raises no error, adds no file
\* and no content, and does not stop the scan: the finished run wrote what
\* it would write, and ended as it would end, on the input without the
\* candidates that do not qualify.
C11_NonQualifyingSkipped ==
    /\ (tool \in ExtractTools /\ Finished) =>
          [writes |-> WritesMade, end |-> pc] = RunOfDoc(tool, PrunedDoc(tool, text))
    /\ (tool = "write_first_file" /\ Finished) =>
          [writes |-> WritesMade, end |-> pc]
              = RunOfChunks(SelectSeq(AllChunks(messages), QualifiesChunk))

====
